---------------------------- MODULE Spec2Model ----------------------------
(***************************************************************************)
(* Model of the watermark plugin: the SSRF-hardened download               *)
(* (utils/network_utils.py), the watermark cache and the compositing       *)
(* engine (core/image_processor.py) and the request handler (main.py).     *)
(*                                                                         *)
(* Strings that the code inspects character by character (host names,      *)
(* IP literals, deny-list patterns) are sequences of one-character         *)
(* strings.  IPv4 addresses are 4 octets, IPv6 addresses 8 hextets, so     *)
(* that no value leaves the 32-bit signed range of the model checker.      *)
(***************************************************************************)
EXTENDS Integers, Sequences, FiniteSets, TLC

(***************************************************************************)
(* Python str helpers                                                      *)
(***************************************************************************)
StartsWith(s, p) == Len(p) <= Len(s) /\ SubSeq(s, 1, Len(p)) = p

EndsWith(s, p) == Len(p) <= Len(s) /\ SubSeq(s, Len(s) - Len(p) + 1, Len(s)) = p

Contains(s, c) == \E i \in 1..Len(s) : s[i] = c

\* str.split(sep) for a one-character separator
RECURSIVE SplitAcc(_, _, _, _)
SplitAcc(s, sep, cur, acc) ==
    IF s = << >> THEN Append(acc, cur)
    ELSE IF Head(s) = sep THEN SplitAcc(Tail(s), sep, << >>, Append(acc, cur))
    ELSE SplitAcc(Tail(s), sep, Append(cur, Head(s)), acc)

Split(s, sep) == SplitAcc(s, sep, << >>, << >>)

DigitChars == <<"0","1","2","3","4","5","6","7","8","9">>

HexChars == <<"0","1","2","3","4","5","6","7","8","9","a","b","c","d","e","f">>

IsDigit(c) == \E i \in 1..10 : DigitChars[i] = c

IsHex(c) == \E i \in 1..16 : HexChars[i] = c

DigitVal(c) == (CHOOSE i \in 1..16 : HexChars[i] = c) - 1

AllDigits(s) == s # << >> /\ \A i \in 1..Len(s) : IsDigit(s[i])

AllHex(s) == s # << >> /\ \A i \in 1..Len(s) : IsHex(s[i])

RECURSIVE ParseBase(_, _, _)
ParseBase(s, base, acc) ==
    IF s = << >> THEN acc ELSE ParseBase(Tail(s), base, acc * base + DigitVal(Head(s)))

(***************************************************************************)
(* ipaddress.ip_address(str): IPv4 dotted quad, else IPv6 text             *)
(***************************************************************************)
\* one IPv4 octet: decimal digits only, at most 3, no leading zero, <= 255
OctetOk(p) ==
    /\ AllDigits(p)
    /\ Len(p) <= 3
    /\ (Len(p) > 1 => p[1] # "0")
    /\ ParseBase(p, 10, 0) <= 255

IsV4Text(s) ==
    LET parts == Split(s, ".")
    IN  Len(parts) = 4 /\ \A i \in 1..4 : OctetOk(parts[i])

V4Octets(s) == LET parts == Split(s, ".") IN [i \in 1..4 |-> ParseBase(parts[i], 10, 0)]

HextetOk(p) == AllHex(p) /\ Len(p) <= 4

\* index of the "::" gap among the parts of an IPv6 text, 0 if none, -1 if several
V6SkipIndex(parts) ==
    LET gaps == {i \in 2..(Len(parts) - 1) : parts[i] = << >>}
    IN  IF gaps = {} THEN 0 ELSE IF Cardinality(gaps) > 1 THEN -1 ELSE CHOOSE i \in gaps : TRUE

V6Shape(s) ==
    LET parts == Split(s, ":")
        n     == Len(parts)
        skip  == V6SkipIndex(parts)
        hi0   == skip - 1
        lo0   == n - skip
        hi    == IF parts[1] = << >> THEN hi0 - 1 ELSE hi0
        lo    == IF parts[n] = << >> THEN lo0 - 1 ELSE lo0
    IN  IF n < 3 \/ n > 9 \/ skip = -1 THEN [ok |-> FALSE, hi |-> 0, lo |-> 0]
        ELSE IF skip = 0
             THEN [ok |-> n = 8 /\ parts[1] # << >> /\ parts[n] # << >>, hi |-> 8, lo |-> 0]
        ELSE [ok |-> /\ (parts[1] = << >> => hi = 0)
                     /\ (parts[n] = << >> => lo = 0)
                     /\ 8 - (hi + lo) >= 1,
              hi |-> hi, lo |-> lo]

IsV6Text(s) ==
    LET parts == Split(s, ":")
        n     == Len(parts)
        sh    == V6Shape(s)
    IN  /\ ~Contains(s, ".")
        /\ sh.ok
        /\ \A i \in 1..sh.hi : HextetOk(parts[i])
        /\ \A i \in (n - sh.lo + 1)..n : HextetOk(parts[i])

V6Hextets(s) ==
    LET parts == Split(s, ":")
        n     == Len(parts)
        sh    == V6Shape(s)
    IN  [i \in 1..8 |->
            IF i <= sh.hi THEN ParseBase(parts[i], 16, 0)
            ELSE IF i > 8 - sh.lo THEN ParseBase(parts[n - (8 - i)], 16, 0)
            ELSE 0]

\* ipaddress.ip_address(text) succeeds
IsIpText(s) == IsV4Text(s) \/ IsV6Text(s)

\* IPv4Address.is_private / is_loopback / is_link_local (CPython's network tables)
V4IsPrivate(o) ==
    \/ o[1] = 0
    \/ o[1] = 10
    \/ o[1] = 127
    \/ (o[1] = 169 /\ o[2] = 254)
    \/ (o[1] = 172 /\ o[2] \in 16..31)
    \/ (o[1] = 192 /\ o[2] = 0 /\ o[3] = 0 /\ o[4] \in 0..7)
    \/ (o[1] = 192 /\ o[2] = 0 /\ o[3] = 0 /\ o[4] \in 170..171)
    \/ (o[1] = 192 /\ o[2] = 0 /\ o[3] = 2)
    \/ (o[1] = 192 /\ o[2] = 168)
    \/ (o[1] = 198 /\ o[2] \in 18..19)
    \/ (o[1] = 198 /\ o[2] = 51 /\ o[3] = 100)
    \/ (o[1] = 203 /\ o[2] = 0 /\ o[3] = 113)
    \/ o[1] >= 240

V4IsLoopback(o) == o[1] = 127

V4IsLinkLocal(o) == o[1] = 169 /\ o[2] = 254

V6IsPrivate(h) ==
    \/ (\A i \in 1..7 : h[i] = 0) /\ h[8] \in {0, 1}
    \/ (\A i \in 1..5 : h[i] = 0) /\ h[6] = 65535
    \/ (h[1] = 256 /\ h[2] = 0 /\ h[3] = 0 /\ h[4] = 0)
    \/ (h[1] = 8193 /\ h[2] < 512)
    \/ (h[1] = 8193 /\ h[2] = 3512)
    \/ h[1] \div 512 = 126
    \/ h[1] \div 64 = 1018

V6IsLoopback(h) == (\A i \in 1..7 : h[i] = 0) /\ h[8] = 1

V6IsLinkLocal(h) == h[1] \div 64 = 1018

(***************************************************************************)
(* int(hostname) and the range test 0 <= ip_int <= 0xFFFFFFFF, computed on *)
(* two 16-bit halves                                                       *)
(***************************************************************************)
RECURSIVE DecHiLo(_, _)
DecHiLo(s, acc) ==
    IF s = << >> THEN acc
    ELSE LET lo2 == acc.lo * 10 + DigitVal(Head(s))
             hi2 == acc.hi * 10 + (lo2 \div 65536)
         IN  DecHiLo(Tail(s), [hi   |-> hi2 % 65536,
                               lo   |-> lo2 % 65536,
                               over |-> acc.over \/ hi2 >= 65536])

IntHiLo(s) == DecHiLo(s, [hi |-> 0, lo |-> 0, over |-> FALSE])

\* int(hostname) succeeds and 0 <= ip_int <= 0xFFFFFFFF
IsIpInt(s) == AllDigits(s) /\ ~IntHiLo(s).over

\* the IPv4 address that ipaddress.ip_address(ip_int) denotes
IntOctets(s) ==
    LET v == IntHiLo(s)
    IN  <<v.hi \div 256, v.hi % 256, v.lo \div 256, v.lo % 256>>

(***************************************************************************)
(* NetworkUtils: pure helpers                                              *)
(***************************************************************************)
DANGEROUS_PATTERNS ==
    << <<"l","o","c","a","l","h","o","s","t">>,
       <<"1","2","7",".","0",".","0",".","1">>,
       <<"0",".","0",".","0",".","0">>,
       <<":",":","1">>,
       <<"1","6","9",".","2","5","4",".">>,
       <<"m","e","t","a","d","a","t","a",".">>,
       <<".","i","n","t","e","r","n","a","l">>,
       <<".","l","o","c","a","l">>,
       <<".","l","o","c","a","l","d","o","m","a","i","n">>,
       <<"1","0",".">>,
       <<"1","7","2",".","1","6",".">>,
       <<"1","7","2",".","1","7",".">>,
       <<"1","7","2",".","1","8",".">>,
       <<"1","7","2",".","1","9",".">>,
       <<"1","7","2",".","2","0",".">>,
       <<"1","7","2",".","2","1",".">>,
       <<"1","7","2",".","2","2",".">>,
       <<"1","7","2",".","2","3",".">>,
       <<"1","7","2",".","2","4",".">>,
       <<"1","7","2",".","2","5",".">>,
       <<"1","7","2",".","2","6",".">>,
       <<"1","7","2",".","2","7",".">>,
       <<"1","7","2",".","2","8",".">>,
       <<"1","7","2",".","2","9",".">>,
       <<"1","7","2",".","3","0",".">>,
       <<"1","7","2",".","3","1",".">>,
       <<"1","9","2",".","1","6","8",".">> >>

\* the chunk size of response.content.iter_chunked
chunk_size == 8192

IpTextIsPrivate(s) ==
    IF IsV4Text(s)
    THEN LET o == V4Octets(s) IN V4IsPrivate(o) \/ V4IsLoopback(o) \/ V4IsLinkLocal(o)
    ELSE LET h == V6Hextets(s) IN V6IsPrivate(h) \/ V6IsLoopback(h) \/ V6IsLinkLocal(h)

\* _is_private_ip: ipaddress.ip_address(ip_str) on the text; a ValueError gives False
_is_private_ip(ip_str) == IF IsIpText(ip_str) THEN IpTextIsPrivate(ip_str) ELSE FALSE

\* _is_ip_format: the text parses as an address, or int(hostname) is in the IPv4 range
_is_ip_format(hostname) == IsIpText(hostname) \/ IsIpInt(hostname)

SchemeAcceptsAny(scheme) == TRUE

SchemeAllowed(scheme) == scheme \in {"http", "https"}

\* the deny-list loop of _is_safe_url_with_ip
PatternHitPrefixOnly(hostname, pattern) == hostname = pattern \/ StartsWith(hostname, pattern)

PatternHit(hostname, pattern) ==
    LET clean_pattern == IF StartsWith(pattern, <<".">>) THEN Tail(pattern) ELSE pattern
    IN  \/ hostname = pattern
        \/ EndsWith(hostname, <<".">> \o clean_pattern)
        \/ StartsWith(hostname, pattern)

MatchesDangerousPattern(hostname) ==
    \E i \in 1..Len(DANGEROUS_PATTERNS) : PatternHit(hostname, DANGEROUS_PATTERNS[i])

None == "None"

\* _is_safe_url_with_ip up to the first await: "reject", a literal address accepted as
\* (hostname, hostname), or "resolve" when the name goes to _resolve_hostname.
\* parsed.hostname never keeps the brackets of an IPv6 literal, and a text in brackets
\* is no address, so the branch of lines 152-157 returns nothing.
PreResolve(u) ==
    IF ~SchemeAllowed(u.scheme) THEN [verdict |-> "reject", why |-> "scheme"]
    ELSE IF u.host = << >> THEN [verdict |-> "reject", why |-> "nohost"]
    ELSE IF _is_ip_format(u.host)
         THEN IF _is_private_ip(u.host) THEN [verdict |-> "reject", why |-> "private"]
              ELSE [verdict |-> "literal", why |-> ""]
    ELSE IF MatchesDangerousPattern(u.host) THEN [verdict |-> "reject", why |-> "pattern"]
    ELSE [verdict |-> "resolve", why |-> ""]

(***************************************************************************)
(* Bounds and input sets of the download                                   *)
(***************************************************************************)
\* host names and address literals of the URLs the model downloads
H_localhost == <<"l","o","c","a","l","h","o","s","t">>

H_loop4 == <<"1","2","7",".","0",".","0",".","1">>

H_loop4b == <<"1","2","7",".","8",".","9",".","1">>

H_unspec4 == <<"0",".","0",".","0",".","0">>

H_linklocal4 == <<"1","6","9",".","2","5","4",".","1","6","9",".","2","5","4">>

H_priv10 == <<"1","0",".","1",".","2",".","3">>

H_priv172 == <<"1","7","2",".","2","0",".","0",".","9">>

H_priv192 == <<"1","9","2",".","1","6","8",".","1",".","1">>

H_pub4 == <<"9","3",".","1","8","4",".","2","1","6",".","3","4">>

H_pub172 == <<"1","7","2",".","3","2",".","0",".","1">>

H_loop6 == <<":",":","1">>

H_unspec6 == <<":",":">>

H_linklocal6 == <<"f","e","8","0",":",":","1">>

H_ula6 == <<"f","d","0","0",":",":","5">>

H_pub6 == <<"2","6","0","6",":","4","7","0","0",":",":","1","1">>

H_metadata == <<"m","e","t","a","d","a","t","a",".","g","o","o","g","l","e",".","i","n","t","e","r","n","a","l">>

H_metaprefix == <<"m","e","t","a","d","a","t","a",".","e","x","a","m","p","l","e",".","c","o","m">>

H_internal == <<"d","b",".","i","n","t","e","r","n","a","l">>

H_local == <<"p","r","i","n","t","e","r",".","l","o","c","a","l">>

H_localdomain == <<"b","o","x",".","l","o","c","a","l","d","o","m","a","i","n">>

H_example == <<"e","x","a","m","p","l","e",".","c","o","m">>

H_cdn == <<"i","m","g",".","c","d","n",".","n","e","t">>

H_intLoop == <<"2","1","3","0","7","0","6","4","3","3">>

H_intPriv == <<"1","6","7","7","7","2","1","6","5">>

H_intLink == <<"2","8","5","2","0","3","9","1","6","6">>

H_intPub == <<"1","3","4","7","4","4","0","7","2">>

H_intBig == <<"4","2","9","4","9","6","7","2","9","6">>

H_empty == <<>>

\* NetworkUtils(timeout, max_size): the configured values, scaled down
timeout == 2

max_size == 20000

\* how long the clock of the model runs, and how many redirects a response chain has
MaxClock == 4

MaxRedirects == 1

Hosts ==
    { H_localhost, H_loop4, H_loop4b, H_unspec4, H_linklocal4, H_priv10, H_priv172,
      H_priv192, H_pub4, H_pub172, H_loop6, H_unspec6, H_linklocal6, H_ula6, H_pub6,
      H_metadata, H_metaprefix, H_internal, H_local, H_localdomain, H_example, H_cdn,
      H_intLoop, H_intPriv, H_intLink, H_intPub, H_intBig, H_empty }

Urls ==
    [scheme : {"http", "https"}, host : Hosts]
        \cup [scheme : {"ftp", "file", ""}, host : {H_example, H_pub4, H_loop4, H_empty}]

\* what a name server may answer, at any lookup, for any name
DnsV4Answers == {H_pub4, H_priv10, H_loop4, H_linklocal4}

DnsV6Answers == {H_pub6, H_loop6, H_ula6}

\* where a 3xx response may point
RedirectHosts == {H_cdn, H_linklocal4, H_internal, H_loop6}

\* lengths of the response body the server sends
BodyTotals ==
    { 0, 1, chunk_size, max_size - 1, max_size, max_size + 1,
      max_size + chunk_size, max_size + 2 * chunk_size + 1 }

Min(a, b) == IF a < b THEN a ELSE b

\* iter_chunked(n) yields chunks of at most n bytes
ChunkChoices(left) == {Min(left, chunk_size), Min(left, chunk_size \div 2)} \ {0}

(***************************************************************************)
(* State                                                                   *)
(***************************************************************************)
VARIABLES
    url,          \* download_image's argument, as urlparse reads it: scheme, hostname
    pc,           \* where the call is
    safe_info,    \* None or <<safe_ip, hostname>>
    reqHost,      \* host of the request session.get is making (changes on a redirect)
    redirects,    \* redirects followed so far
    dnsLookups,   \* names handed to a name-server lookup, in order
    connections,  \* addresses a TCP connection was opened to
    buffer,       \* len(buffer)
    bodyTotal,    \* length of the body the server sends
    bodyLeft,     \* what of it has not arrived yet
    result,       \* "pending", None, "bytes"
    logged,       \* the message download_image logged on its way out
    elapsed,      \* time since the call
    httpStart     \* time at which session.get started

fetchVars ==
    <<url, pc, safe_info, reqHost, redirects, dnsLookups, connections, buffer,
      bodyTotal, bodyLeft, result, logged, elapsed, httpStart>>

\* the watermark store (ImageProcessor._watermark_cache and the images callers hold)
VARIABLES
    heap,         \* slot -> image value, or Free
    cache,        \* _watermark_cache: name -> slot of the template, 0 if none
    held,         \* slots of the images callers hold
    firstLoaded,  \* name -> value of the template when the cache got it, NoImage before
    lastLoad      \* the latest load_watermark call: name, value returned, cache before/after

storeVars == <<heap, cache, held, firstLoaded, lastLoad>>

\* the compositor called repeatedly
VARIABLES
    objs,   \* heap of the compositor's caller: slot 1 the source image, slot 2 the watermark
    wmArg,  \* the watermark argument: 2, or NoneRef
    calls   \* the apply_* calls made so far, latest last

composeVars == <<objs, wmArg, calls>>

\* _process_watermark
VARIABLES
    stage,       \* where the handler is
    wmType,      \* "gemini" or "doubao"
    img,         \* image: slot of the decoded image, NoneRef before
    asset,       \* file name handed to load_watermark, "" before
    wm,          \* watermark: slot of the loaded watermark, NoneRef before
    applied,     \* what apply_* returned: a slot, NoneRef, or Raised
    emitted,     \* the results yielded to the caller, in order
    outputFile,  \* "none", "written" (result.save returned), "removed" (cleanup)
    saveRaised,  \* result.save raised
    requests     \* requests handled so far

processVars ==
    <<stage, wmType, img, asset, wm, applied, emitted, outputFile, saveRaised,
      requests>>

\* what the actions of one part leave alone
restOfFetch == <<storeVars, composeVars, processVars>>

restOfStore == <<fetchVars, composeVars, processVars>>

restOfCompose == <<fetchVars, storeVars, processVars>>

restOfProcess == <<fetchVars, composeVars, firstLoaded, lastLoad>>

InitFetch ==
    /\ url \in Urls
    /\ pc = "check"
    /\ safe_info = None
    /\ reqHost = << >>
    /\ redirects = 0
    /\ dnsLookups = << >>
    /\ connections = {}
    /\ buffer = 0
    /\ bodyTotal = 0
    /\ bodyLeft = 0
    /\ result = "pending"
    /\ logged = ""
    /\ elapsed = 0
    /\ httpStart = 0

(***************************************************************************)
(* download_image                                                          *)
(***************************************************************************)
\* return None, with the message logged
Fail(msg) ==
    /\ pc' = "done"
    /\ result' = None
    /\ logged' = msg

\* lines 179-182: _is_safe_url_with_ip returned None
Reject == Fail("unsafe_url") /\ UNCHANGED <<safe_info, reqHost, httpStart>>

\* lines 184-198: _is_safe_url_with_ip returned (ip, hostname); session.get(url) starts
Accept(ip) ==
    /\ safe_info' = <<ip, url.host>>
    /\ reqHost' = url.host
    /\ httpStart' = elapsed
    /\ pc' = "connect"
    /\ UNCHANGED <<result, logged>>

\* _is_safe_url_with_ip, lines 139-163
CheckUrl ==
    /\ pc = "check"
    /\ LET r == PreResolve(url)
       IN  CASE r.verdict = "reject"  -> Reject
             [] r.verdict = "literal" -> Accept(url.host)
             [] r.verdict = "resolve" ->
                    /\ pc' = "resolve4"
                    /\ UNCHANGED <<safe_info, reqHost, httpStart, result, logged>>
    /\ UNCHANGED <<url, redirects, dnsLookups, connections, buffer, bodyTotal, bodyLeft,
                   elapsed>>
    /\ UNCHANGED restOfFetch

\* lines 165-172: what _is_safe_url_with_ip does with the resolved address
PostResolve(resolved_ip) == IF _is_private_ip(resolved_ip) THEN Reject ELSE Accept(resolved_ip)

\* _resolve_hostname, lines 118-125: getaddrinfo(AF_INET)
ResolveV4 ==
    /\ pc = "resolve4"
    /\ dnsLookups' = Append(dnsLookups, url.host)
    /\ \/ \E a \in DnsV4Answers : PostResolve(a)
       \/ /\ pc' = "resolve6"                      \* socket.gaierror: try AF_INET6
          /\ UNCHANGED <<safe_info, reqHost, httpStart, result, logged>>
       \/ Reject                                   \* any other exception: None
    /\ UNCHANGED <<url, redirects, connections, buffer, bodyTotal, bodyLeft, elapsed>>
    /\ UNCHANGED restOfFetch

\* _resolve_hostname, lines 126-136: getaddrinfo(AF_INET6)
ResolveV6 ==
    /\ pc = "resolve6"
    /\ dnsLookups' = Append(dnsLookups, url.host)
    /\ \/ \E a \in DnsV6Answers : PostResolve(a)
       \/ Reject                                   \* gaierror or another exception: None
    /\ UNCHANGED <<url, redirects, connections, buffer, bodyTotal, bodyLeft, elapsed>>
    /\ UNCHANGED restOfFetch

\* FixedDNSResolver.resolve for a host the dict holds: the pinned address, or []
\* when the pinned text is no address
PinnedHosts(safe_ip) == IF IsIpText(safe_ip) THEN {safe_ip} ELSE {}

\* the connector opens the connection of the current request: a literal host is
\* dialled as it is, any other host goes through FixedDNSResolver.resolve
ConnectTo(target) ==
    /\ connections' = connections \cup {target}
    /\ pc' = "response"
    /\ UNCHANGED <<result, logged>>

ConnectLiteral ==
    /\ pc = "connect"
    /\ IsIpText(reqHost)
    /\ ConnectTo(reqHost)
    /\ UNCHANGED <<url, safe_info, reqHost, redirects, dnsLookups, buffer, bodyTotal,
                   bodyLeft, elapsed, httpStart>>
    /\ UNCHANGED restOfFetch

\* FixedDNSResolver.resolve, lines 23-42
ConnectPinned ==
    /\ pc = "connect"
    /\ ~IsIpText(reqHost)
    /\ reqHost = safe_info[2]
    /\ IF PinnedHosts(safe_info[1]) = {}
       THEN /\ Fail("download_failed") /\ UNCHANGED connections
       ELSE \E target \in PinnedHosts(safe_info[1]) : ConnectTo(target)
    /\ UNCHANGED <<url, safe_info, reqHost, redirects, dnsLookups, buffer, bodyTotal,
                   bodyLeft, elapsed, httpStart>>
    /\ UNCHANGED restOfFetch

\* FixedDNSResolver.resolve, line 43: a host the dict does not hold goes to the
\* default resolver, whose answer nothing classifies
ConnectUnpinned ==
    /\ pc = "connect"
    /\ ~IsIpText(reqHost)
    /\ reqHost # safe_info[2]
    /\ dnsLookups' = Append(dnsLookups, reqHost)
    /\ \/ \E target \in DnsV4Answers \cup DnsV6Answers : ConnectTo(target)
       \/ Fail("download_failed") /\ UNCHANGED connections
    /\ UNCHANGED <<url, safe_info, reqHost, redirects, buffer, bodyTotal, bodyLeft,
                   elapsed, httpStart>>
    /\ UNCHANGED restOfFetch

\* session.get(url), lines 198-201: the status line of the response.  The call passes
\* no allow_redirects, so a 3xx with a Location is followed by a new request.
ResponseOk ==
    /\ pc = "response"
    /\ \E n \in BodyTotals : bodyTotal' = n /\ bodyLeft' = n
    /\ pc' = "stream"
    /\ UNCHANGED <<url, safe_info, reqHost, redirects, dnsLookups, connections, buffer,
                   result, logged, elapsed, httpStart>>
    /\ UNCHANGED restOfFetch

ResponseBadStatus ==
    /\ pc = "response"
    /\ Fail("bad_status")
    /\ UNCHANGED <<url, safe_info, reqHost, redirects, dnsLookups, connections, buffer,
                   bodyTotal, bodyLeft, elapsed, httpStart>>
    /\ UNCHANGED restOfFetch

ResponseRedirect ==
    /\ pc = "response"
    /\ redirects < MaxRedirects
    /\ \E h \in RedirectHosts : reqHost' = h
    /\ redirects' = redirects + 1
    /\ pc' = "connect"
    /\ UNCHANGED <<url, safe_info, dnsLookups, connections, buffer, bodyTotal, bodyLeft,
                   result, logged, elapsed, httpStart>>
    /\ UNCHANGED restOfFetch

\* line 206
OverLimitOff(len) == len > max_size + chunk_size

OverLimit(len) == len > max_size

\* lines 204-208: one chunk of the body
RecvChunk ==
    /\ pc = "stream"
    /\ bodyLeft > 0
    /\ \E n \in ChunkChoices(bodyLeft) :
          /\ buffer' = buffer + n
          /\ bodyLeft' = bodyLeft - n
          /\ IF OverLimit(buffer + n)
             THEN Fail("too_large")
             ELSE UNCHANGED <<pc, result, logged>>
    /\ UNCHANGED <<url, safe_info, reqHost, redirects, dnsLookups, connections,
                   bodyTotal, elapsed, httpStart>>
    /\ UNCHANGED restOfFetch

\* lines 210-211: the body ended
EndOfBody ==
    /\ pc = "stream"
    /\ bodyLeft = 0
    /\ pc' = "done"
    /\ result' = "bytes"
    /\ logged' = "downloaded"
    /\ UNCHANGED <<url, safe_info, reqHost, redirects, dnsLookups, connections, buffer,
                   bodyTotal, bodyLeft, elapsed, httpStart>>
    /\ UNCHANGED restOfFetch

\* lines 216-218: the connection is refused or breaks
NetworkError ==
    /\ pc \in {"connect", "response", "stream"}
    /\ Fail("download_failed")
    /\ UNCHANGED <<url, safe_info, reqHost, redirects, dnsLookups, connections, buffer,
                   bodyTotal, bodyLeft, elapsed, httpStart>>
    /\ UNCHANGED restOfFetch

\* ClientTimeout(total=self.timeout), lines 193-197 and 213-215: the timer starts with
\* session.get and covers connect, response and body
InHttp == pc \in {"connect", "response", "stream"}

TimedOut ==
    /\ InHttp
    /\ elapsed - httpStart >= timeout
    /\ Fail("timeout")
    /\ UNCHANGED <<url, safe_info, reqHost, redirects, dnsLookups, connections, buffer,
                   bodyTotal, bodyLeft, elapsed, httpStart>>
    /\ UNCHANGED restOfFetch

\* time passes while the call awaits: loop.getaddrinfo (lines 119, 127) runs under no
\* timer; the awaits of the request run under the session's timer
Tick ==
    /\ elapsed < MaxClock
    /\ \/ pc \in {"resolve4", "resolve6"}
       \/ InHttp /\ elapsed - httpStart < timeout
    /\ elapsed' = elapsed + 1
    /\ UNCHANGED <<url, pc, safe_info, reqHost, redirects, dnsLookups, connections,
                   buffer, bodyTotal, bodyLeft, result, logged, httpStart>>
    /\ UNCHANGED restOfFetch

NextFetch ==
    \/ CheckUrl
    \/ ResolveV4
    \/ ResolveV6
    \/ ConnectLiteral
    \/ ConnectPinned
    \/ ConnectUnpinned
    \/ ResponseOk
    \/ ResponseBadStatus
    \/ ResponseRedirect
    \/ RecvChunk
    \/ EndOfBody
    \/ NetworkError
    \/ TimedOut
    \/ Tick

(***************************************************************************)
(* Properties of the download                                              *)
(***************************************************************************)
H_metadataPrefix == <<"m","e","t","a","d","a","t","a",".">>

H_dotInternal == <<".","i","n","t","e","r","n","a","l">>

H_dotLocal == <<".","l","o","c","a","l">>

H_dotLocaldomain == <<".","l","o","c","a","l","d","o","m","a","i","n">>

\* a literal loopback, unspecified, link-local or RFC1918 address
ForbiddenLiteral(h) ==
    \/ /\ IsV4Text(h)
       /\ LET o == V4Octets(h)
          IN  \/ o[1] = 127
              \/ o = <<0, 0, 0, 0>>
              \/ (o[1] = 169 /\ o[2] = 254)
              \/ o[1] = 10
              \/ (o[1] = 172 /\ o[2] \in 16..31)
              \/ (o[1] = 192 /\ o[2] = 168)
    \/ /\ IsV6Text(h)
       /\ LET x == V6Hextets(h)
          IN  \/ x = <<0, 0, 0, 0, 0, 0, 0, 1>>
              \/ x = <<0, 0, 0, 0, 0, 0, 0, 0>>
              \/ x[1] \div 64 = 1018

\* a host name on the deny-list
DeniedName(h) ==
    \/ h = H_localhost
    \/ StartsWith(h, H_metadataPrefix)
    \/ EndsWith(h, H_dotInternal)
    \/ EndsWith(h, H_dotLocal)
    \/ EndsWith(h, H_dotLocaldomain)

ForbiddenHost(h) == ForbiddenLiteral(h) \/ DeniedName(h)

NoNetworkIO == dnsLookups = << >> /\ connections = {}

\* C1: a URL whose host is a literal loopback, unspecified, link-local or RFC1918
\* address, or a denied host name, never causes a DNS lookup or a connection, and its
\* download ends with None.
C1_ForbiddenHostNoIO ==
    ForbiddenHost(url.host) =>
        /\ NoNetworkIO
        /\ result # "bytes"
        /\ (pc = "done" => result = None)

C1_Witness ==
    /\ pc = "done"
    /\ url = [scheme |-> "https", host |-> H_internal]
    /\ result = None
    /\ logged = "unsafe_url"

\* C2: every connection of a call goes to the address the validation returned
\* (safe_info's first component), whatever later lookups would answer.
C2_ConnectionsPinned ==
    \A c \in connections : safe_info # None /\ c = safe_info[1]

\* C3: the call fails whenever the body is longer than max_size, returns bytes only
\* for a body of at most max_size (all of it), and the buffer never holds more than
\* max_size + chunk_size bytes.
C3_StreamingCap ==
    /\ buffer <= max_size + chunk_size
    /\ (pc = "stream" => buffer <= max_size)
    /\ (pc = "done" /\ bodyTotal > max_size => result = None)
    /\ (result = "bytes" => bodyTotal <= max_size /\ buffer = bodyTotal)

C3_Witness ==
    /\ pc = "done"
    /\ bodyTotal = max_size + 1
    /\ buffer = max_size + 1
    /\ result = None
    /\ logged = "too_large"

\* the host is one decimal integer that encodes a loopback, link-local or private
\* IPv4 address
EncodesPrivateInt(h) ==
    /\ IsIpInt(h)
    /\ LET o == IntOctets(h) IN V4IsPrivate(o) \/ V4IsLoopback(o) \/ V4IsLinkLocal(o)

\* C4: a numeric host is classified as the address it encodes: when that address is
\* loopback, link-local or private, _is_safe_url_with_ip rejects the URL and no
\* connection is opened.
C4_NumericHostRejected ==
    (EncodesPrivateInt(url.host) /\ pc # "check") =>
        /\ safe_info = None
        /\ connections = {}

\* C5 as claimed: a URL with a scheme other than http and https ends with the
\* outcome InvalidInput, with no DNS lookup and no connection.
C5_InvalidInputOutcome ==
    (~(url.scheme \in {"http", "https"}) /\ pc = "done") =>
        /\ result = "InvalidInput"
        /\ NoNetworkIO

\* C5 amended: a URL with a scheme other than http and https ends with None, the
\* outcome and the log message of every other rejected URL, and causes no DNS lookup
\* and no connection.
C5_BadSchemeRejected ==
    ~(url.scheme \in {"http", "https"}) =>
        /\ NoNetworkIO
        /\ result # "bytes"
        /\ (pc = "done" => result = None /\ logged = "unsafe_url")

C5_Witness ==
    /\ pc = "done"
    /\ url = [scheme |-> "ftp", host |-> H_example]
    /\ result = None

\* C6: a call still running has not outlived the configured timeout, whichever phase
\* it is in.
C6_TimeoutBoundsCall == result = "pending" => elapsed <= timeout

(***************************************************************************)
(* Images.  An image object lives in a heap slot, so that two references   *)
(* to one object and two equal objects differ.  An image value is its      *)
(* size, its mode and its content: the picture it was decoded from, the    *)
(* alpha channel at a few sample pixels (empty without an alpha channel),  *)
(* and the resamplings and pastes done to it, in order.                    *)
(***************************************************************************)
MAX_IMAGE_PIXELS == 10000 * 10000

WARNING_PIXELS == 5000 * 5000

LARGE_IMAGE_MARGIN == 64

SMALL_IMAGE_MARGIN == 32

LARGE_IMAGE_THRESHOLD == 1024

ALPHA_THRESHOLD == 10

\* DOUBAO_SIZE_RATIO = 0.13 and DOUBAO_MARGIN_RATIO = 0.03, in hundredths
DOUBAO_SIZE_RATIO == 13

DOUBAO_MARGIN_RATIO == 3

\* constants.DOUBAN_ASPECT_RATIO (width : height)
DOUBAN_ASPECT_RATIO == 2

\* slots of the heap
MaxHeap == 10

\* images a caller holds at a time
MaxHeld == 2

\* no image: the content of a free slot, of a file that gives no image
NoImage ==
    [size |-> <<0, 0>>, mode |-> "", px |-> [base |-> "", alpha |-> << >>, ops |-> << >>]]

Free == NoImage

\* references that are no slot: Python's None, and an exception in place of a value
NoneRef == 0

Raised == -1

Slots == 1..MaxHeap

FreeSlots(h) == {i \in Slots : h[i] = Free}

Alloc(h) == CHOOSE i \in FreeSlots(h) : \A j \in FreeSlots(h) : i <= j

\* a new image object with value v
New(h, v) == [heap |-> [h EXCEPT ![Alloc(h)] = v], id |-> Alloc(h)]

\* Image.copy
Copy(h, id) == New(h, h[id])

\* the alpha channel of a fully opaque image, at the sample pixels
OpaqueAlpha == <<255, 255, 255, 255>>

\* Image.convert(mode): a new image; RGB has no alpha channel, RGBA of an RGB image is
\* fully opaque
ConvertValue(v, mode) ==
    IF v.mode = mode THEN v
    ELSE IF mode = "RGB" THEN [v EXCEPT !.mode = "RGB", !.px.alpha = << >>]
    ELSE [v EXCEPT !.mode = "RGBA", !.px.alpha = OpaqueAlpha]

Convert(h, id, mode) == New(h, ConvertValue(h[id], mode))

\* Image.resize(size, LANCZOS): a new image; a resize to the image's own size is a copy
ResizeValue(v, size) ==
    IF v.size = size THEN v
    ELSE [v EXCEPT !.size = size,
                   !.px.ops = Append(@, [op |-> "resize", size |-> size, at |-> <<0, 0>>,
                                         src |-> "", srcAlpha |-> << >>, srcOps |-> << >>])]

Resize(h, id, size) == New(h, ResizeValue(h[id], size))

\* int(255 * opacity), opacity in hundredths
OpacityLevel(opacity) == (255 * opacity) \div 100

\* _apply_opacity, lines 75-77: alpha.point(...) and putalpha, on the object itself
OpacityValue(v, opacity) ==
    [v EXCEPT !.px.alpha =
        [i \in 1..Len(@) |-> IF @[i] > ALPHA_THRESHOLD THEN OpacityLevel(opacity) ELSE 0]]

_apply_opacity(h, id, opacity) == [h EXCEPT ![id] = OpacityValue(@, opacity)]

\* Image.paste(im, box, mask), on the object itself
PasteValue(v, im, at) ==
    [v EXCEPT !.px.ops = Append(@, [op |-> "paste", size |-> im.size, at |-> at,
                                    src |-> im.px.base, srcAlpha |-> im.px.alpha,
                                    srcOps |-> im.px.ops])]

Paste(h, id, wmId, at) == [h EXCEPT ![id] = PasteValue(@, h[wmId], at)]

\* check_image_safety, lines 52-57
GateAcceptsAll(v) == TRUE

check_image_safety(v) == ~(v.size[1] * v.size[2] > MAX_IMAGE_PIXELS)

SafetyWarns(v) == check_image_safety(v) /\ v.size[1] * v.size[2] > WARNING_PIXELS

\* _calculate_gemini_position, lines 81-88
GeminiMarginEither(img_width, img_height) ==
    IF img_width > LARGE_IMAGE_THRESHOLD \/ img_height > LARGE_IMAGE_THRESHOLD
    THEN LARGE_IMAGE_MARGIN
    ELSE SMALL_IMAGE_MARGIN

GeminiMargin(img_width, img_height) ==
    IF img_width > LARGE_IMAGE_THRESHOLD /\ img_height > LARGE_IMAGE_THRESHOLD
    THEN LARGE_IMAGE_MARGIN
    ELSE SMALL_IMAGE_MARGIN

_calculate_gemini_position(img_width, img_height, wmSize) ==
    LET margin == GeminiMargin(img_width, img_height)
    IN  <<img_width - margin - wmSize[1], img_height - margin - wmSize[2]>>

\* _calculate_doubao_size, lines 118-120: int() truncates
DoubaoSizeFromHeight(img_width, img_height) ==
    LET wm_width == (img_height * DOUBAO_SIZE_RATIO) \div 100
    IN  <<wm_width, wm_width \div DOUBAN_ASPECT_RATIO>>

_calculate_doubao_size(img_width, img_height) ==
    LET wm_width == (img_width * DOUBAO_SIZE_RATIO) \div 100
    IN  <<wm_width, wm_width \div DOUBAN_ASPECT_RATIO>>

\* _calculate_doubao_position, lines 128-132
_calculate_doubao_position(img_width, img_height, wm_width, wm_height) ==
    LET margin_right  == (img_width * DOUBAO_MARGIN_RATIO) \div 100
        margin_bottom == (img_height * DOUBAO_MARGIN_RATIO) \div 100
    IN  <<img_width - margin_right - wm_width, img_height - margin_bottom - wm_height>>

\* what an apply_* call leaves: the heap, and the object returned (NoneRef for None,
\* Raised when an exception leaves the call)
Outcome(h, ret) == [heap |-> h, ret |-> ret]

\* line 108: watermark.resize((wm_width, wm_height), LANCZOS)
GeminiResizedInPlace(h, watermark, size) == [heap |-> h, id |-> watermark]

GeminiResized(h, watermark, size) == Resize(h, watermark, size)

\* lines 104-106: the watermark does not fit: return image.convert("RGB")
GeminiSkipFails(h, image) == [heap |-> h, id |-> NoneRef]

GeminiSkip(h, image) == Convert(h, image, "RGB")

\* result = image.copy(), converted to RGBA when it is not (lines 96-98, 144-146)
RgbaCopy(h, image) ==
    LET c == Copy(h, image)
    IN  IF c.heap[c.id].mode # "RGBA" THEN Convert(c.heap, c.id, "RGBA") ELSE c

\* resized_watermark converted to RGBA when it is not (lines 109-110, 151-152)
EnsureRgba(r) == IF r.heap[r.id].mode # "RGBA" THEN Convert(r.heap, r.id, "RGBA") ELSE r

\* apply_gemini_watermark, lines 90-115
apply_gemini_watermark(h, image, watermark, opacity) ==
    IF ~check_image_safety(h[image]) THEN Outcome(h, NoneRef)
    ELSE LET res  == RgbaCopy(h, image)
             size == res.heap[res.id].size
             wmSz == res.heap[watermark].size
             pos  == _calculate_gemini_position(size[1], size[2], wmSz)
         IN  IF pos[1] < 0 \/ pos[2] < 0
             THEN LET out == GeminiSkip(res.heap, image) IN Outcome(out.heap, out.id)
             ELSE LET rw  == EnsureRgba(GeminiResized(res.heap, watermark, wmSz))
                      h1  == _apply_opacity(rw.heap, rw.id, opacity)
                      h2  == Paste(h1, res.id, rw.id, pos)
                      out == Convert(h2, res.id, "RGB")
                  IN  Outcome(out.heap, out.id)

\* apply_doubao_watermark, lines 134-158; Image.resize raises ValueError for a size
\* with a zero side
apply_doubao_watermark(h, image, watermark, opacity) ==
    IF watermark = NoneRef THEN Outcome(h, NoneRef)
    ELSE IF ~check_image_safety(h[image]) THEN Outcome(h, NoneRef)
    ELSE LET res  == RgbaCopy(h, image)
             wmSz == _calculate_doubao_size(h[image].size[1], h[image].size[2])
         IN  IF wmSz[1] <= 0 \/ wmSz[2] <= 0 THEN Outcome(res.heap, Raised)
             ELSE LET rw  == EnsureRgba(Resize(res.heap, watermark, wmSz))
                      h1  == _apply_opacity(rw.heap, rw.id, opacity)
                      pos == _calculate_doubao_position(h[image].size[1], h[image].size[2],
                                                        wmSz[1], wmSz[2])
                      h2  == Paste(h1, res.id, rw.id, pos)
                      out == Convert(h2, res.id, "RGB")
                  IN  Outcome(out.heap, out.id)

\* preprocess_image, lines 59-71: data is what Image.open makes of the bytes, an image
\* or an exception; the conversion of line 63 comes before the check of line 64
preprocess_image(h, data) ==
    IF data.state # "ok" THEN Outcome(h, NoneRef)
    ELSE LET opened == New(h, data.image)
             im     == IF opened.heap[opened.id].mode \notin {"RGB", "RGBA"}
                       THEN Convert(opened.heap, opened.id, "RGB")
                       ELSE opened
         IN  IF ~check_image_safety(im.heap[im.id]) THEN Outcome(im.heap, NoneRef)
             ELSE Outcome(im.heap, im.id)

\* objects no reference reaches any more are collected
Collect(h, live) == [i \in Slots |-> IF i \in live THEN h[i] ELSE Free]

(***************************************************************************)
(* Inputs: watermark files, decoded source images, opacities               *)
(***************************************************************************)
WatermarkNames == {"gemini_96px.png", "gemini_48px.png", "doubao.png"}

\* the alpha channel of a watermark file at the sample pixels: transparent, at the
\* threshold, just above it, opaque
WmAlpha == <<0, 10, 11, 255>>

WmValue(name, size) ==
    [size |-> size, mode |-> "RGBA", px |-> [base |-> name, alpha |-> WmAlpha, ops |-> << >>]]

\* what the file of a watermark may hold when it is opened
WmFileSizes(name) ==
    IF name = "gemini_96px.png" THEN {<<96, 96>>, <<200, 100>>}
    ELSE IF name = "gemini_48px.png" THEN {<<48, 48>>, <<100, 50>>}
    ELSE {<<400, 200>>}

\* a file that opens and decodes, a missing file, a file that does not decode
WmFiles(name) ==
    {[state |-> "ok", image |-> WmValue(name, sz)] : sz \in WmFileSizes(name)}
        \cup {[state |-> "missing", image |-> NoImage], [state |-> "corrupt", image |-> NoImage]}

SrcValue(size, mode) ==
    [size |-> size, mode |-> mode,
     px |-> [base |-> "photo",
             alpha |-> IF mode = "RGBA" THEN <<255, 128, 0, 255>> ELSE << >>,
             ops |-> << >>]]

\* gemini_opacity and doubao_opacity of the configuration, in hundredths
Opacities == {25, 70}

(***************************************************************************)
(* load_watermark                                                          *)
(***************************************************************************)
\* line 36: return self._watermark_cache[filename].copy()
CacheHitShared(h, id) == [heap |-> h, id |-> id]

CacheHit(h, id) == Copy(h, id)

\* load_watermark, lines 35-49.  cache maps a name to the slot of its template, 0
\* when there is none.
load_watermark(h, c, filename, file) ==
    IF c[filename] # 0
    THEN LET r == CacheHit(h, c[filename])
         IN  [heap |-> r.heap, cache |-> c, ret |-> r.id, temps |-> {}]
    ELSE IF file.state = "ok"
    THEN LET w  == New(h, ConvertValue(file.image, "RGBA"))
             k  == Copy(w.heap, w.id)
             r  == Copy(k.heap, w.id)
         IN  [heap |-> r.heap, cache |-> [c EXCEPT ![filename] = k.id], ret |-> r.id,
              temps |-> {w.id}]
    ELSE [heap |-> h, cache |-> c, ret |-> NoneRef, temps |-> {}]

(***************************************************************************)
(* The watermark store used by arbitrary callers: they load watermarks,    *)
(* change the images they were given, and let them go.                     *)
(***************************************************************************)
EmptyHeap == [i \in Slots |-> Free]

NoLoad == [name |-> "", ret |-> NoImage, before |-> 0, after |-> 0, stale |-> FALSE]

InitStore ==
    /\ heap = EmptyHeap
    /\ cache = [n \in WatermarkNames |-> 0]
    /\ held = {}
    /\ firstLoaded = [n \in WatermarkNames |-> NoImage]
    /\ lastLoad = NoLoad

CacheSlots(c) == {c[n] : n \in WatermarkNames} \ {0}

\* a caller calls load_watermark(filename); the file is in one of its states
LoadWatermark ==
    /\ Cardinality(held) < MaxHeld
    /\ \E filename \in WatermarkNames : \E file \in WmFiles(filename) :
          LET r == load_watermark(heap, cache, filename, file)
          IN  /\ cache' = r.cache
              /\ held' = IF r.ret = NoneRef THEN held ELSE held \cup {r.ret}
              /\ heap' = Collect(r.heap, CacheSlots(r.cache) \cup held')
              /\ firstLoaded' =
                    IF cache[filename] = 0 /\ r.cache[filename] # 0
                    THEN [firstLoaded EXCEPT ![filename] = r.heap[r.cache[filename]]]
                    ELSE firstLoaded
              /\ lastLoad' =
                    [name   |-> filename,
                     ret    |-> IF r.ret = NoneRef THEN NoImage ELSE r.heap[r.ret],
                     before |-> cache[filename],
                     after  |-> r.cache[filename],
                     stale  |-> \E i \in held : /\ heap[i].px.base = filename
                                                /\ cache[filename] # 0
                                                /\ heap[i] # firstLoaded[filename]]
    /\ UNCHANGED restOfStore

\* a caller changes an image it was given, in place (as _apply_opacity does)
MutateHeld ==
    /\ \E i \in held : \E opacity \in Opacities :
          /\ heap[i] # OpacityValue(heap[i], opacity)
          /\ heap' = _apply_opacity(heap, i, opacity)
    /\ UNCHANGED <<cache, held, firstLoaded, lastLoad>>
    /\ UNCHANGED restOfStore

\* the callers let go of the images they hold
ReleaseHeld ==
    /\ held # {}
    /\ held' = {}
    /\ heap' = Collect(heap, CacheSlots(cache))
    /\ UNCHANGED <<cache, firstLoaded, lastLoad>>
    /\ UNCHANGED restOfStore

NextStore == LoadWatermark \/ MutateHeld \/ ReleaseHeld

(***************************************************************************)
(* preprocess_image and the compositor called by any caller, repeatedly,  *)
(* on one source image and one watermark                                   *)
(***************************************************************************)
MaxCalls == 2

SrcImages ==
    { SrcValue(<<2000, 1500>>, "RGB"), SrcValue(<<1025, 1025>>, "RGBA"),
      SrcValue(<<800, 600>>, "RGBA"), SrcValue(<<100, 60>>, "RGB"),
      SrcValue(<<7, 7>>, "RGB"), SrcValue(<<10001, 10000>>, "RGB"),
      SrcValue(<<10000, 10000>>, "RGB"), SrcValue(<<5001, 5000>>, "RGBA") }

\* what the bytes handed to preprocess_image decode to
GateImages ==
    {[state |-> "ok", image |-> SrcValue(size, mode)] :
        size \in {<<10001, 10000>>, <<10000, 10000>>, <<5001, 5000>>},
        mode \in {"RGB", "L"}}
        \cup {[state |-> "corrupt", image |-> NoImage]}

ComposeWatermarks ==
    {f.image : f \in {g \in UNION {WmFiles(n) : n \in WatermarkNames} : g.state = "ok"}}

InitCompose ==
    /\ \E src \in SrcImages : \E mark \in ComposeWatermarks :
          objs = [i \in Slots |-> IF i = 1 THEN src ELSE IF i = 2 THEN mark ELSE Free]
    /\ wmArg \in {2, NoneRef}
    /\ calls = << >>

\* the value of what a call returned
RetValue(o) == IF o.ret \in Slots THEN o.heap[o.ret] ELSE NoImage

\* arg is the image the call is about; made counts the image objects the call made
\* or changed
CallRecord(fn, opacity, arg, o) ==
    [fn |-> fn, opacity |-> opacity, arg |-> arg,
     made |-> Cardinality({i \in Slots : o.heap[i] # objs[i]}),
     imageBefore |-> objs[1], imageAfter |-> o.heap[1],
     wmBefore |-> objs[2], wmAfter |-> o.heap[2],
     ret |-> IF o.ret \in Slots THEN "image" ELSE IF o.ret = Raised THEN "raised" ELSE "None",
     out |-> RetValue(o)]

\* the caller keeps the source image and the watermark, and lets the result go
AfterCall(fn, opacity, arg, o) ==
    /\ objs' = Collect(o.heap, {1, 2})
    /\ calls' = Append(calls, CallRecord(fn, opacity, arg, o))
    /\ UNCHANGED wmArg

ApplyGemini ==
    /\ Len(calls) < MaxCalls
    /\ wmArg # NoneRef
    /\ \E opacity \in Opacities :
          AfterCall("gemini", opacity, objs[1],
                    apply_gemini_watermark(objs, 1, wmArg, opacity))
    /\ UNCHANGED restOfCompose

ApplyDoubao ==
    /\ Len(calls) < MaxCalls
    /\ \E opacity \in Opacities :
          AfterCall("doubao", opacity, objs[1],
                    apply_doubao_watermark(objs, 1, wmArg, opacity))
    /\ UNCHANGED restOfCompose

PreprocessImage ==
    /\ Len(calls) < MaxCalls
    /\ \E data \in GateImages :
          AfterCall("preprocess", 0, data.image, preprocess_image(objs, data))
    /\ UNCHANGED restOfCompose

NextCompose == ApplyGemini \/ ApplyDoubao \/ PreprocessImage

(***************************************************************************)
(* _process_watermark: one request after the other on one plugin object;   *)
(* the watermark cache outlives the requests.  The handler uses heap,       *)
(* cache and held (its local references) of the store above.               *)
(***************************************************************************)
MaxRequests == 2

NewRequestState ==
    /\ stage = "extract"
    /\ wmType \in {"gemini", "doubao"}
    /\ img = NoneRef
    /\ asset = ""
    /\ wm = NoneRef
    /\ applied = NoneRef
    /\ emitted = << >>
    /\ outputFile = "none"
    /\ saveRaised = FALSE

InitProcess ==
    /\ NewRequestState
    /\ requests = 0
    /\ heap = EmptyHeap
    /\ cache = [n \in WatermarkNames |-> 0]
    /\ held = {}

\* yield event.plain_result(msg); return
RefuseTwice(msg) ==
    /\ emitted' = emitted \o <<msg, msg>>
    /\ stage' = "finally"

Refuse(msg) ==
    /\ emitted' = Append(emitted, msg)
    /\ stage' = "finally"

\* lines 95-98
ExtractImage ==
    /\ stage = "extract"
    /\ \/ Refuse("no_image")
       \/ stage' = "download" /\ UNCHANGED emitted
    /\ UNCHANGED <<wmType, img, asset, wm, applied, outputFile, saveRaised,
                   requests, heap, cache, held>>
    /\ UNCHANGED restOfProcess

\* lines 100-103: download_image returns bytes or None
Download ==
    /\ stage = "download"
    /\ \/ Refuse("download_failed")
       \/ stage' = "preprocess" /\ UNCHANGED emitted
    /\ UNCHANGED <<wmType, img, asset, wm, applied, outputFile, saveRaised,
                   requests, heap, cache, held>>
    /\ UNCHANGED restOfProcess

\* sizes and modes of the images a download decodes to
DecodedSizes ==
    { <<2000, 1500>>, <<1025, 1025>>, <<1024, 2000>>, <<2000, 1024>>, <<1024, 1024>>,
      <<1000, 800>>, <<100, 60>>, <<7, 7>>, <<10000, 100>>, <<5001, 5000>>,
      <<10000, 10000>>, <<10001, 10000>> }

DecodedModes == {"RGB", "RGBA", "L"}

\* what Image.open makes of the downloaded bytes
DecodedImages ==
    {[state |-> "ok", image |-> SrcValue(size, mode)] : size \in DecodedSizes,
                                                       mode \in DecodedModes}
        \cup {[state |-> "corrupt", image |-> NoImage]}

\* lines 105-108: preprocess_image gives None when the bytes do not decode or the image
\* is over the pixel limit
Preprocess ==
    /\ stage = "preprocess"
    /\ \E data \in DecodedImages :
          LET o == preprocess_image(heap, data)
          IN  /\ IF o.ret = NoneRef
                 THEN /\ Refuse("process_failed")
                      /\ UNCHANGED <<img, held>>
                 ELSE /\ img' = o.ret
                      /\ held' = held \cup {o.ret}
                      /\ stage' = "load"
                      /\ UNCHANGED emitted
              /\ heap' = Collect(o.heap, CacheSlots(cache) \cup held')
    /\ UNCHANGED <<wmType, asset, wm, applied, outputFile, saveRaised, requests,
                   cache>>
    /\ UNCHANGED restOfProcess

\* lines 110-114 and 122: the file the handler asks for
AssetFor(type, v) ==
    IF type = "gemini"
    THEN IF v.size[1] > 1024 /\ v.size[2] > 1024 THEN "gemini_96px.png" ELSE "gemini_48px.png"
    ELSE "doubao.png"

\* lines 112-118 and 122-126
LoadAsset ==
    /\ stage = "load"
    /\ asset' = AssetFor(wmType, heap[img])
    /\ \E file \in WmFiles(asset') :
          LET r == load_watermark(heap, cache, asset', file)
          IN  /\ cache' = r.cache
              /\ IF r.ret = NoneRef
                 THEN /\ Refuse("watermark_load_failed")
                      /\ UNCHANGED <<wm, held>>
                 ELSE /\ wm' = r.ret
                      /\ held' = held \cup {r.ret}
                      /\ stage' = "apply"
                      /\ UNCHANGED emitted
              /\ heap' = Collect(r.heap, CacheSlots(r.cache) \cup held')
    /\ UNCHANGED <<wmType, img, applied, outputFile, saveRaised, requests>>
    /\ UNCHANGED restOfProcess

\* lines 120, 128-136; an exception goes to the handler of lines 144-146
ApplyWatermark ==
    /\ stage = "apply"
    /\ \E opacity \in Opacities :
          LET o == IF wmType = "gemini"
                   THEN apply_gemini_watermark(heap, img, wm, opacity)
                   ELSE apply_doubao_watermark(heap, img, wm, opacity)
          IN  /\ applied' = o.ret
              /\ held' = IF o.ret \in Slots THEN held \cup {o.ret} ELSE held
              /\ heap' = Collect(o.heap, CacheSlots(cache) \cup held')
              /\ IF o.ret = Raised THEN Refuse("exception")
                 ELSE IF o.ret = NoneRef
                      THEN Refuse(IF wmType = "gemini" THEN "watermark_failed"
                                  ELSE "watermark_apply_failed")
                 ELSE stage' = "save" /\ UNCHANGED emitted
    /\ UNCHANGED <<wmType, img, asset, wm, outputFile, saveRaised, requests, cache>>
    /\ UNCHANGED restOfProcess

\* lines 138-140: generate_output_path and result.save; an OSError of save goes to
\* the handler of lines 144-146, and the file it began may exist
SaveResult ==
    /\ stage = "save"
    /\ \/ /\ outputFile' = "written"
          /\ stage' = "yield"
          /\ UNCHANGED <<emitted, saveRaised>>
       \/ /\ saveRaised' = TRUE
          /\ outputFile' \in {"none", "written"}
          /\ Refuse("exception")
    /\ UNCHANGED <<wmType, img, asset, wm, applied, requests, heap, cache, held>>
    /\ UNCHANGED restOfProcess

\* line 142
YieldResult ==
    /\ stage = "yield"
    /\ emitted' = Append(emitted, "image")
    /\ stage' = "finally"
    /\ UNCHANGED <<wmType, img, asset, wm, applied, outputFile, saveRaised,
                   requests, heap, cache, held>>
    /\ UNCHANGED restOfProcess

\* lines 147-149
Cleanup ==
    /\ stage = "finally"
    /\ outputFile' = IF outputFile = "written" THEN "removed" ELSE outputFile
    /\ stage' = "done"
    /\ UNCHANGED <<wmType, img, asset, wm, applied, emitted, saveRaised,
                   requests, heap, cache, held>>
    /\ UNCHANGED restOfProcess

\* the next message: the locals of the finished call are gone, the cache stays
NextRequest ==
    /\ stage = "done"
    /\ requests < MaxRequests
    /\ requests' = requests + 1
    /\ stage' = "extract"
    /\ wmType' \in {"gemini", "doubao"}
    /\ img' = NoneRef
    /\ asset' = ""
    /\ wm' = NoneRef
    /\ applied' = NoneRef
    /\ emitted' = << >>
    /\ outputFile' = "none"
    /\ saveRaised' = FALSE
    /\ held' = {}
    /\ heap' = Collect(heap, CacheSlots(cache))
    /\ UNCHANGED cache
    /\ UNCHANGED restOfProcess

NextProcess ==
    \/ ExtractImage
    \/ Download
    \/ Preprocess
    \/ LoadAsset
    \/ ApplyWatermark
    \/ SaveResult
    \/ YieldResult
    \/ Cleanup
    \/ NextRequest

(***************************************************************************)
(* Specifications                                                          *)
(***************************************************************************)
vars == <<fetchVars, storeVars, composeVars, processVars>>

FetchIdle ==
    /\ url = [scheme |-> "", host |-> << >>]
    /\ pc = "idle"
    /\ safe_info = None
    /\ reqHost = << >>
    /\ redirects = 0
    /\ dnsLookups = << >>
    /\ connections = {}
    /\ buffer = 0
    /\ bodyTotal = 0
    /\ bodyLeft = 0
    /\ result = "pending"
    /\ logged = ""
    /\ elapsed = 0
    /\ httpStart = 0

ComposeIdle ==
    /\ objs = EmptyHeap
    /\ wmArg = NoneRef
    /\ calls = << >>

ProcessIdle ==
    /\ stage = "idle"
    /\ wmType = ""
    /\ img = NoneRef
    /\ asset = ""
    /\ wm = NoneRef
    /\ applied = NoneRef
    /\ emitted = << >>
    /\ outputFile = "none"
    /\ saveRaised = FALSE
    /\ requests = 0

StoreTrace == firstLoaded = [n \in WatermarkNames |-> NoImage] /\ lastLoad = NoLoad

\* download_image
InitOfFetch == InitFetch /\ InitStore /\ ComposeIdle /\ ProcessIdle

SpecFetch == InitOfFetch /\ [][NextFetch]_vars

\* load_watermark under arbitrary callers
InitOfStore == InitStore /\ FetchIdle /\ ComposeIdle /\ ProcessIdle

SpecStore == InitOfStore /\ [][NextStore]_vars

\* apply_gemini_watermark and apply_doubao_watermark called repeatedly
InitOfCompose == InitCompose /\ FetchIdle /\ InitStore /\ ProcessIdle

SpecCompose == InitOfCompose /\ [][NextCompose]_vars

\* _process_watermark
Init == InitProcess /\ StoreTrace /\ FetchIdle /\ ComposeIdle

Spec == Init /\ [][NextProcess]_vars

Stages ==
    {"extract", "download", "preprocess", "load", "apply", "save", "yield", "finally",
     "done"}

\* a handler that has not returned leaves the stage it is at: its code is straight-line
\* and the event loop resumes it when the one await, download_image, has ended
LeavesStage == stage # "done" /\ stage' \in Stages /\ stage' # stage

\* _process_watermark, every stage of which ends
FairSpec == Init /\ [][NextProcess]_vars /\ WF_stage(LeavesStage)

(***************************************************************************)
(* Properties of the watermark store and of the compositor                 *)
(***************************************************************************)
\* C7: once a name is cached its template never changes, whatever callers do to the
\* images they were given; every successful load returns an image equal to the
\* template as first loaded; a failed load returns None and adds no cache entry.
C7_CacheCopyOnRead ==
    /\ \A n \in WatermarkNames :
          /\ (cache[n] # 0 => heap[cache[n]] = firstLoaded[n] /\ firstLoaded[n] # NoImage)
          /\ (cache[n] = 0 => firstLoaded[n] = NoImage)
    /\ CacheSlots(cache) \cap held = {}
    /\ (lastLoad.name # "" =>
          IF lastLoad.ret # NoImage
          THEN lastLoad.ret = firstLoaded[lastLoad.name] /\ lastLoad.after # 0
          ELSE lastLoad.before = 0 /\ lastLoad.after = 0)

\* a load answered from the cache after a caller changed an earlier copy of the name
C7_Witness ==
    /\ lastLoad.stale
    /\ lastLoad.before # 0
    /\ lastLoad.ret = firstLoaded[lastLoad.name]
    /\ \E i \in held : heap[i].px.base = lastLoad.name /\ heap[i] # firstLoaded[lastLoad.name]

\* C8: every apply_gemini_watermark and apply_doubao_watermark call leaves the source
\* image object and the watermark object as they were, on every path, and two calls
\* on the same objects with the same opacity return the same outcome.
C8_NoMutationIdempotent ==
    /\ \A i \in 1..Len(calls) :
          /\ calls[i].imageAfter = calls[i].imageBefore
          /\ calls[i].wmAfter = calls[i].wmBefore
          /\ objs[1] = calls[i].imageBefore
          /\ objs[2] = calls[i].wmBefore
    /\ \A i, j \in 1..Len(calls) :
          (calls[i].fn = calls[j].fn /\ calls[i].opacity = calls[j].opacity
              /\ calls[i].arg = calls[j].arg)
              => calls[i].ret = calls[j].ret /\ calls[i].out = calls[j].out

\* two composited results of the same call on the same objects
C8_Witness ==
    /\ Len(calls) = 2
    /\ calls[1].fn = calls[2].fn
    /\ calls[1].fn \in {"gemini", "doubao"}
    /\ calls[1].opacity = calls[2].opacity
    /\ calls[2].ret = "image"
    /\ calls[2].out.px.ops # << >>
    /\ calls[2].out = calls[1].out

(***************************************************************************)
(* Properties of the request handler                                       *)
(***************************************************************************)
\* the call of apply_* of the current request has returned
Applied == wm # NoneRef /\ stage \in {"save", "yield", "finally", "done"}

\* variant A as the design states it
ClaimedMargin(w, h) == IF w > 1024 /\ h > 1024 THEN 64 ELSE 32

ClaimedPosition(w, h, wmW, wmH) ==
    <<w - ClaimedMargin(w, h) - wmW, h - ClaimedMargin(w, h) - wmH>>

DoesNotFit(w, h, wmW, wmH) ==
    ClaimedPosition(w, h, wmW, wmH)[1] < 0 \/ ClaimedPosition(w, h, wmW, wmH)[2] < 0

GeminiApplied == Applied /\ wmType = "gemini"

SkipCase ==
    /\ GeminiApplied
    /\ DoesNotFit(heap[img].size[1], heap[img].size[2], heap[wm].size[1], heap[wm].size[2])

LastPaste == heap[applied].px.ops[Len(heap[applied].px.ops)]

\* C10: the margin is 64 exactly when both image dimensions are over 1024 and 32
\* otherwise, the watermark is pasted at (imgW - margin - wmW, imgH - margin - wmH),
\* and the handler asks for the larger asset exactly when the margin is 64; an image
\* of 2000x1500 with an asset of 200x100 gives (1736, 1336).
C10_GeminiGeometry ==
    /\ (wmType = "gemini" /\ asset # "") =>
          LET w == heap[img].size[1]
              h == heap[img].size[2]
          IN  /\ (asset = "gemini_96px.png" <=> ClaimedMargin(w, h) = 64)
              /\ (asset = "gemini_48px.png" <=> ClaimedMargin(w, h) = 32)
    /\ (GeminiApplied /\ ~SkipCase) =>
          LET w   == heap[img].size[1]
              h   == heap[img].size[2]
              wmW == heap[wm].size[1]
              wmH == heap[wm].size[2]
          IN  /\ applied \in Slots
              /\ Len(heap[applied].px.ops) = 1
              /\ LastPaste.op = "paste"
              /\ LastPaste.size = <<wmW, wmH>>
              /\ LastPaste.at = ClaimedPosition(w, h, wmW, wmH)
              /\ (w = 2000 /\ h = 1500 /\ wmW = 200 /\ wmH = 100
                     => LastPaste.at = <<1736, 1336>>)

C10_Witness ==
    /\ GeminiApplied
    /\ applied \in Slots
    /\ heap[img].size = <<2000, 1500>>
    /\ heap[wm].size = <<200, 100>>
    /\ asset = "gemini_96px.png"
    /\ LastPaste.at = <<1736, 1336>>

\* variant B as the design states it: the width is 13% of the image width, the height
\* is that width over the aspect ratio 2:1, the margins are 3% of each dimension
ClaimedDoubaoSize(w, h) == <<(13 * w) \div 100, ((13 * w) \div 100) \div 2>>

ClaimedDoubaoMargins(w, h) == <<(3 * w) \div 100, (3 * h) \div 100>>

ClaimedDoubaoPosition(w, h) ==
    <<w - ClaimedDoubaoMargins(w, h)[1] - ClaimedDoubaoSize(w, h)[1],
      h - ClaimedDoubaoMargins(w, h)[2] - ClaimedDoubaoSize(w, h)[2]>>

DoubaoApplied == Applied /\ wmType = "doubao"

\* C11: apply_doubao_watermark resizes the watermark to (13% of the image width, that
\* width over the aspect ratio) and pastes it once at (imgW - 3% of imgW - wmW,
\* imgH - 3% of imgH - wmH), every product truncated to an integer; an image of
\* 1000x800 gives the size (130, 65), the margins (30, 24) and the offset (840, 711).
\* (A target size with a zero side makes Image.resize raise, and nothing is pasted.)
C11_DoubaoGeometry ==
    /\ ClaimedDoubaoSize(1000, 800) = <<130, 65>>
    /\ ClaimedDoubaoMargins(1000, 800) = <<30, 24>>
    /\ ClaimedDoubaoPosition(1000, 800) = <<840, 711>>
    /\ DoubaoApplied =>
          LET w == heap[img].size[1]
              h == heap[img].size[2]
          IN  /\ _calculate_doubao_size(w, h) = ClaimedDoubaoSize(w, h)
              /\ IF \E k \in 1..2 : ClaimedDoubaoSize(w, h)[k] = 0
                 THEN applied = Raised
                 ELSE /\ applied \in Slots
                      /\ heap[applied].size = <<w, h>>
                      /\ Len(heap[applied].px.ops) = 1
                      /\ LastPaste.op = "paste"
                      /\ LastPaste.src = "doubao.png"
                      /\ LastPaste.size = ClaimedDoubaoSize(w, h)
                      /\ LastPaste.at = ClaimedDoubaoPosition(w, h)
                      /\ _calculate_doubao_position(w, h, LastPaste.size[1],
                                                    LastPaste.size[2])
                             = ClaimedDoubaoPosition(w, h)

C11_Witness ==
    /\ DoubaoApplied
    /\ applied \in Slots
    /\ heap[img].size = <<1000, 800>>
    /\ LastPaste.size = <<130, 65>>
    /\ LastPaste.at = <<840, 711>>

(***************************************************************************)
(* Properties of the safety gate                                           *)
(***************************************************************************)
\* the ceiling and the warning level as the design states them
OverCeiling(v) == v.size[1] * v.size[2] > 10000 * 10000

OverWarning(v) == v.size[1] * v.size[2] > 5000 * 5000

\* the calls of the compositor
Compositing == {"gemini", "doubao"}

\* C12: check_image_safety rejects exactly the images of more than 10000*10000 pixels
\* (10001x10000 rejected, 10000x10000 accepted, 5001x5000 accepted with a warning);
\* preprocess_image returns None for a decoded image over the ceiling and the image
\* otherwise, and apply_gemini_watermark and apply_doubao_watermark given an image
\* over the ceiling return None having made or changed no image object: no copy, no
\* resize, no paste; under the ceiling they are not stopped by the gate.
C12_PixelCeiling ==
    /\ ~check_image_safety(SrcValue(<<10001, 10000>>, "RGB"))
    /\ check_image_safety(SrcValue(<<10000, 10000>>, "RGB"))
    /\ check_image_safety(SrcValue(<<5001, 5000>>, "RGB"))
    /\ SafetyWarns(SrcValue(<<5001, 5000>>, "RGB"))
    /\ ~SafetyWarns(SrcValue(<<10001, 10000>>, "RGB"))
    /\ \A v \in SrcImages :
          /\ check_image_safety(v) <=> ~OverCeiling(v)
          /\ SafetyWarns(v) <=> (OverWarning(v) /\ ~OverCeiling(v))
    /\ \A i \in 1..Len(calls) :
          LET c == calls[i]
          IN  /\ (c.fn = "preprocess" /\ c.arg # NoImage) =>
                    /\ c.ret = "None" <=> OverCeiling(c.arg)
                    /\ c.ret = "image" <=> ~OverCeiling(c.arg)
                    /\ c.ret = "image" => c.out = ConvertValue(c.arg, c.out.mode)
              /\ (c.fn \in Compositing /\ OverCeiling(c.arg)) =>
                    /\ c.ret = "None"
                    /\ c.made = 0
                    /\ c.imageAfter = c.imageBefore
                    /\ c.wmAfter = c.wmBefore
              /\ (c.fn \in Compositing /\ ~OverCeiling(c.arg)) =>
                    /\ (c.ret = "None" <=> (c.fn = "doubao" /\ wmArg = NoneRef))
                    /\ (c.ret # "None" => c.made > 0)

\* an image of 10001x10000 refused by preprocess_image and by apply_gemini_watermark
C12_Witness ==
    /\ Len(calls) = 2
    /\ calls[1].fn = "preprocess"
    /\ calls[1].arg.size = <<10001, 10000>>
    /\ calls[1].ret = "None"
    /\ calls[2].fn = "gemini"
    /\ calls[2].arg.size = <<10001, 10000>>
    /\ calls[2].ret = "None"
    /\ calls[2].made = 0

(***************************************************************************)
(* Properties of a whole request                                           *)
(***************************************************************************)
ErrorMessages ==
    {"no_image", "download_failed", "process_failed", "watermark_load_failed",
     "watermark_failed", "watermark_apply_failed", "exception"}

\* the stages of a request, in the order the design gives them
StageRank(st) ==
    CASE st = "extract" -> 1
      [] st = "download" -> 2
      [] st = "preprocess" -> 3
      [] st = "load" -> 4
      [] st = "apply" -> 5
      [] st = "save" -> 6
      [] st = "yield" -> 7
      [] st = "finally" -> 8
      [] st = "done" -> 9

\* extraction, download, decode, watermark load and compositing have all succeeded
AllStagesSucceeded ==
    /\ StageRank(stage) >= 6
    /\ img \in Slots
    /\ wm \in Slots
    /\ applied \in Slots

\* at most one result, an image or an error message, none before the request is over,
\* and a file only after every stage succeeded
OneOutcome ==
    /\ Len(emitted) <= 1
    /\ \A i \in 1..Len(emitted) : emitted[i] \in ErrorMessages \cup {"image"}
    /\ (StageRank(stage) <= 7 => emitted = << >>)
    /\ (StageRank(stage) >= 8 => Len(emitted) = 1)
    /\ (outputFile # "none" => AllStagesSucceeded)
    /\ (emitted = <<"image">> => AllStagesSucceeded /\ outputFile # "none" /\ ~saveRaised)
    /\ ((emitted # << >> /\ ~AllStagesSucceeded) =>
            /\ emitted[1] \in ErrorMessages
            /\ outputFile = "none")
    /\ (saveRaised => emitted = <<"exception">>)

\* a step of a request goes on to a later stage, or starts the next request
NoRetry ==
    \/ StageRank(stage') > StageRank(stage) /\ requests' = requests
    \/ stage = "done" /\ stage' = "extract" /\ requests' = requests + 1

\* C13: every run of _process_watermark ends having emitted exactly one result, an
\* image or an error message, and nothing before; no stage is run twice; the output
\* file is written only after extraction, download, decode, watermark load and
\* compositing have all succeeded, and a failure of any of these emits an error and
\* writes no file.
C13_OneOutcomePerRequest ==
    /\ []OneOutcome
    /\ [][NoRetry]_vars
    /\ (stage = "extract" ~> (stage = "done" /\ Len(emitted) = 1))

\* a request whose compositing failed: one error, no file
C13_Witness ==
    /\ stage = "done"
    /\ requests = 1
    /\ img \in Slots
    /\ wm \in Slots
    /\ applied = Raised
    /\ emitted = <<"exception">>
    /\ outputFile = "none"

====
